---------------------------- MODULE Spec2Model ----------------------------
(***************************************************************************)
(* Model of src/app.py: the Element X translator script.  One behaviour is *)
(* one execution of the script from its first line: credential check,      *)
(* client configuration, spreadsheet load and column normalisation, the    *)
(* row loop (format, call, parse, store / except), and the Excel export.   *)
(*                                                                         *)
(* Python strings are modelled as sequences of tokens, so that the fence   *)
(* removal  .replace(fence+"json", "").replace(fence, "") and .strip() act *)
(* on the text as the code does.  A fence is the three-backquote marker.   *)
(***************************************************************************)
EXTENDS Naturals, Sequences, FiniteSets

VARIABLES
    pc,                \* position of the script
    api_key,           \* value of the sidebar text input
    uploaded_file,     \* value of st.file_uploader
    df,                \* the DataFrame
    total_rows,        \* len(df) taken before the loop
    index,             \* loop variable of df.iterrows()
    key,               \* row['key']
    text_to_translate, \* row['Text']
    prompt,            \* MASTER_PROMPT.format(...)
    response,          \* response.text of the last call that returned
    exc,               \* exception raised in the current try block, if any
    rowState,          \* per-row phase of the row loop
    calls,             \* model.generate_content calls made so far
    warnings,          \* st.warning messages shown so far (their keys)
    ui,                \* last blocking message / status shown
    download           \* the st.download_button offered, if any

vars == <<pc, api_key, uploaded_file, df, total_rows, index, key,
          text_to_translate, prompt, response, exc, rowState, calls,
          warnings, ui, download>>

----------------------------------------------------------------------------
(* Bounds *)

MaxRows == 2

----------------------------------------------------------------------------
(* Strings *)

EMPTY == <<>>
PARSE_ERROR == <<"PARSE_ERROR">>
TRANSLATION_ERROR == <<"TRANSLATION_ERROR">>
GERMAN_TRANSLATION == "German Translation"

\* the two fence markers the code removes, as tokens of a text
FENCE == "<fence>"
JSONWORD == "json"
\* a control character (e.g. U+000B, escaped in the JSON text)
CTL == "<U+000B>"
\* a blank spreadsheet cell as pandas reads it (float NaN)
NaN == <<"<float nan>">>

Range(s) == {s[i] : i \in DOMAIN s}

\* str(x): the identity on strings, "nan" for a float NaN
Str(x) == IF x = NaN THEN <<"nan">> ELSE x


----------------------------------------------------------------------------
(* The response text.  A text is a sequence of tokens; a token is a record *)
(* with a kind: whitespace, a fence, the word json, prose, or one JSON     *)
(* value.  A JSON object carries the members the code reads: "key" (EMPTY  *)
(* when absent) and "german_translation" (hasGT, val).  val is a string:   *)
(* a sequence of string tokens, which may itself hold fences.              *)

Tok(k) == [kind |-> k, key |-> EMPTY, hasGT |-> FALSE, val |-> EMPTY]
WS == Tok("ws")
FenceTok == Tok(FENCE)
JsonTok == Tok(JSONWORD)
Prose == Tok("prose")
Obj(k, v) == [kind |-> "object", key |-> k, hasGT |-> TRUE, val |-> v]
ObjNoField(k) == [kind |-> "object", key |-> k, hasGT |-> FALSE, val |-> EMPTY]

JSONKinds == {"object", "array", "string", "number", "null"}

Kinds(t) == [i \in DOMAIN t |-> t[i].kind]

RECURSIVE KeepFrom(_, _, _)
\* the elements of s, in order, whose positions from i on are not in cut
KeepFrom(s, cut, i) ==
    IF i > Len(s) THEN <<>>
    ELSE (IF i \in cut THEN <<>> ELSE <<s[i]>>) \o KeepFrom(s, cut, i + 1)

RECURSIVE PairCut(_, _)
\* str.replace(fence+"json", ""): the positions of the non-overlapping
\* occurrences of a fence directly followed by "json", scanning left to right
PairCut(k, i) ==
    IF i >= Len(k) THEN {}
    ELSE IF k[i] = FENCE /\ k[i + 1] = JSONWORD
         THEN {i, i + 1} \cup PairCut(k, i + 2)
         ELSE PairCut(k, i + 1)

\* str.replace(fence, ""): the positions of every fence
FenceCut(k) == {i \in DOMAIN k : k[i] = FENCE}

\* .replace(fence+"json", "").replace(fence, "") on a sequence s whose kinds are k
RemoveMarkers(s, k) ==
    LET s1 == KeepFrom(s, PairCut(k, 1), 1)
        k1 == KeepFrom(k, PairCut(k, 1), 1)
    IN  KeepFrom(s1, FenceCut(k1), 1)

\* the replaces act on every character of the text, those inside a JSON
\* string included
ReplaceMarkers(t) ==
    LET inner == [i \in DOMAIN t |->
                    [t[i] EXCEPT !.val = RemoveMarkers(t[i].val, t[i].val)]]
    IN  RemoveMarkers(inner, Kinds(inner))

RECURSIVE LStrip(_)
LStrip(t) == IF t # <<>> /\ Head(t).kind = "ws" THEN LStrip(Tail(t)) ELSE t

RECURSIVE RStrip(_)
RStrip(t) ==
    IF t # <<>> /\ t[Len(t)].kind = "ws"
    THEN RStrip(SubSeq(t, 1, Len(t) - 1)) ELSE t

\* str.strip()
Strip(t) == RStrip(LStrip(t))

\* mutant: only the bare fence is removed
CleanResponseBareFence(t) ==
    LET u == Strip(t)
        inner == [i \in DOMAIN u |->
                    [u[i] EXCEPT !.val = KeepFrom(u[i].val, FenceCut(u[i].val), 1)]]
    IN  KeepFrom(inner, FenceCut(Kinds(inner)), 1)

\* response.text.strip().replace(fence+"json", "").replace(fence, "")
CleanResponse(t) == ReplaceMarkers(Strip(t))

IsWs(x) == x.kind = "ws"
NotWs(x) == ~IsWs(x)

\* json.loads accepts exactly one JSON value with whitespace around it
ValidJSON(t) ==
    LET body == SelectSeq(t, NotWs)
    IN  Len(body) = 1 /\ body[1].kind \in JSONKinds

\* json.loads(text) where ValidJSON(text)
Loads(t) == SelectSeq(t, NotWs)[1]

\* only a dict has .get
HasGet(data) == data.kind = "object"

\* mutant: .get without the default sentinel
GetEmptyDefault(data) == IF data.hasGT THEN data.val ELSE EMPTY

\* translation_data.get("german_translation", "PARSE_ERROR")
Get(data) == IF data.hasGT THEN data.val ELSE PARSE_ERROR

----------------------------------------------------------------------------
(* The DataFrame: column labels and rows of cells.  The row labels are the *)
(* RangeIndex 0..n-1 that pd.read_excel gives, so row `index` is           *)
(* rows[index + 1].                                                        *)

NoDF == [columns |-> <<>>, rows |-> <<>>]

\* mutant: the text header is renamed to a lower-case label
column_mapping_lower(c) ==
    CASE c = "Key" -> "key"
      [] c = "Text in english to be translated" -> "text"
      [] OTHER -> c

\* column_mapping, applied to one label by df.rename
column_mapping(c) ==
    CASE c = "Key" -> "key"
      [] c = "Text in english to be translated" -> "Text"
      [] OTHER -> c

\* df.rename(columns=column_mapping, inplace=True)
Rename(d) ==
    [d EXCEPT !.columns = [i \in DOMAIN d.columns |-> column_mapping(d.columns[i])]]

\* 'key' not in df.columns or 'Text' not in df.columns
MissingColumn(d) ==
    "key" \notin Range(d.columns) \/ "Text" \notin Range(d.columns)

ColPos(d, c) == CHOOSE i \in DOMAIN d.columns : d.columns[i] = c

\* df[c] = v: an existing column c is overwritten, a new one is appended
SetColumn(d, c, v) ==
    IF c \in Range(d.columns)
    THEN [d EXCEPT !.rows = [r \in DOMAIN d.rows |->
                                [d.rows[r] EXCEPT ![ColPos(d, c)] = v]]]
    ELSE [columns |-> Append(d.columns, c),
          rows |-> [r \in DOMAIN d.rows |-> Append(d.rows[r], v)]]

\* mutant: the write lands in the identifier column
AtSetKeyColumn(d, i, c, v) == [d EXCEPT !.rows[i + 1][ColPos(d, "key")] = v]

\* df.at[i, c] = v
AtSet(d, i, c, v) == [d EXCEPT !.rows[i + 1][ColPos(d, c)] = v]

\* row[c] for the row labelled i
At(d, i, c) == d.rows[i + 1][ColPos(d, c)]

\* openpyxl refuses a string cell holding a control character
\* (IllegalCharacterError); df.to_excel lets the exception through
ExcelWritable(d) ==
    \A r \in DOMAIN d.rows : \A c \in DOMAIN d.rows[r] : CTL \notin Range(d.rows[r][c])

\* MASTER_PROMPT.format(key_from_user_file=key, text_from_user_file=str(text)):
\* the fixed template with the two values substituted
FormatPrompt(k, t) == <<k, Str(t)>>

----------------------------------------------------------------------------
(* Inputs: the credential, the uploaded file, the service's answers *)

ApiKeys == {EMPTY, <<"secret">>}

Headers ==
    { <<"Key", "Text in english to be translated">>,
      <<"key", "Text">>,
      <<"key", "text">>,
      <<"Notes", "Text", "Key">>,
      <<"Key", "Text in english to be translated", "German Translation">>,
      <<"Key", "Notes">>,
      <<"Text in english to be translated">> }

RowKinds == {1, 2}

\* the cell of a row of kind r under header c
CellFor(c, r) ==
    CASE c \in {"Key", "key"} -> IF r = 1 THEN <<"Q1">> ELSE <<"Q2">>
      [] c \in {"Text in english to be translated", "Text", "text"} ->
            IF r = 1 THEN <<"<p>", "Hello", "</p>">> ELSE NaN
      [] c = "German Translation" -> <<"alt">>
      [] OTHER -> <<"note">>

Table(h, rs) ==
    [kind |-> "xlsx", name |-> <<"in.xlsx">>, columns |-> h,
     rows |-> [i \in DOMAIN rs |-> [j \in DOMAIN h |-> CellFor(h[j], rs[i])]]]

RowSeqs == UNION {[1..n -> RowKinds] : n \in 0..MaxRows}

NoFile == [kind |-> "none", name |-> EMPTY, columns |-> <<>>, rows |-> <<>>]
Corrupt == [kind |-> "corrupt", name |-> <<"in.xlsx">>, columns |-> <<>>, rows |-> <<>>]

Files == {NoFile, Corrupt} \cup {Table(h, rs) : h \in Headers, rs \in RowSeqs}

Hallo == <<"<p>", "Hallo", "</p>">>

Bodies ==
    { Obj(<<"Q1">>, Hallo),
      Obj(<<"Q2">>, Hallo),
      Obj(EMPTY, <<"Guten", FENCE, "Tag">>),
      Obj(<<"Q1">>, <<"Hallo", CTL>>),
      Obj(<<"Q1">>, EMPTY),
      ObjNoField(<<"Q1">>),
      Tok("array"), Tok("string"), Tok("number"), Tok("null"),
      Prose }

Wrappings(b) ==
    { <<b>>,
      <<WS, b, WS>>,
      <<FenceTok, JsonTok, WS, b, WS, FenceTok>>,
      <<FenceTok, FenceTok, JsonTok, b>>,
      <<Prose, WS, b>>,
      <<JsonTok, WS, b>>,
      <<b, b>> }

\* the values that are also answered inside a wrapping
WrappedBodies ==
    { Obj(<<"Q2">>, Hallo),
      Obj(EMPTY, <<"Guten", FENCE, "Tag">>),
      ObjNoField(<<"Q1">>),
      Tok("array") }

Responses ==
    {<<b>> : b \in Bodies}
      \cup UNION {Wrappings(b) : b \in WrappedBodies}
      \cup { <<>>, <<WS>>, <<FenceTok, JsonTok, FenceTok>> }

----------------------------------------------------------------------------
(* The script *)

Init ==
    /\ pc = "start"
    /\ api_key \in ApiKeys
    /\ uploaded_file \in Files
    /\ df = NoDF
    /\ total_rows = 0
    /\ index = 0
    /\ key = EMPTY
    /\ text_to_translate = EMPTY
    /\ prompt = <<>>
    /\ response = <<>>
    /\ exc = "none"
    /\ rowState = <<>>
    /\ calls = <<>>
    /\ warnings = <<>>
    /\ ui = ""
    /\ download = NoDF

\* lines 61-65: no key -> st.info, st.stop()
CheckKey ==
    /\ pc = "start"
    /\ IF api_key = EMPTY
       THEN pc' = "stopped" /\ ui' = "info_enter_key"
       ELSE pc' = "configure" /\ ui' = ui
    /\ UNCHANGED <<api_key, uploaded_file, df, total_rows, index, key,
                   text_to_translate, prompt, response, exc, rowState, calls,
                   warnings, download>>

\* lines 68-73: genai.configure / GenerativeModel either return or raise;
\* on an exception st.error, st.stop()
Configure ==
    /\ pc = "configure"
    /\ \/ pc' = "upload" /\ ui' = ui
       \/ pc' = "stopped" /\ ui' = "error_configuring"
    /\ UNCHANGED <<api_key, uploaded_file, df, total_rows, index, key,
                   text_to_translate, prompt, response, exc, rowState, calls,
                   warnings, download>>

\* lines 77-79: without a file the script ends
Upload ==
    /\ pc = "upload"
    /\ pc' = IF uploaded_file.kind = "none" THEN "done" ELSE "read"
    /\ UNCHANGED <<api_key, uploaded_file, df, total_rows, index, key,
                   text_to_translate, prompt, response, exc, rowState, calls,
                   warnings, ui, download>>

\* lines 80-82, 162-163: pd.read_excel; a file it cannot read raises, and the
\* outer except shows the error
ReadExcel ==
    /\ pc = "read"
    /\ IF uploaded_file.kind = "corrupt"
       THEN pc' = "done" /\ ui' = "error_processing_file:read_excel" /\ df' = df
       ELSE /\ pc' = "rename"
            /\ ui' = ui
            /\ df' = [columns |-> uploaded_file.columns, rows |-> uploaded_file.rows]
    /\ UNCHANGED <<api_key, uploaded_file, total_rows, index, key,
                   text_to_translate, prompt, response, exc, rowState, calls,
                   warnings, download>>

\* mutant: the error is shown but the script is not stopped
NormalizeNoStop ==
    /\ pc = "rename"
    /\ df' = Rename(df)
    /\ pc' = "button"
    /\ ui' = IF MissingColumn(df') THEN "error_columns" ELSE "upload_ok"
    /\ UNCHANGED <<api_key, uploaded_file, total_rows, index, key,
                   text_to_translate, prompt, response, exc, rowState, calls,
                   warnings, download>>

\* lines 86-99: rename, then the required-column check (st.error, st.stop())
Normalize ==
    /\ pc = "rename"
    /\ df' = Rename(df)
    /\ IF MissingColumn(df')
       THEN pc' = "stopped" /\ ui' = "error_columns"
       ELSE pc' = "button" /\ ui' = "upload_ok"
    /\ UNCHANGED <<api_key, uploaded_file, total_rows, index, key,
                   text_to_translate, prompt, response, exc, rowState, calls,
                   warnings, download>>

\* lines 101-110: the button; pressed, the result column is set to '' and
\* the row count taken
Button ==
    /\ pc = "button"
    /\ \/ /\ pc' = "loop"
          /\ df' = SetColumn(df, GERMAN_TRANSLATION, EMPTY)
          /\ total_rows' = Len(df'.rows)
          /\ rowState' = [i \in 1..Len(df'.rows) |-> "PENDING"]
          /\ ui' = "in_progress"
       \/ /\ pc' = "done"
          /\ UNCHANGED <<df, total_rows, rowState, ui>>
    /\ UNCHANGED <<api_key, uploaded_file, index, key, text_to_translate,
                   prompt, response, exc, calls, warnings, download>>

\* the number of rows df.iterrows() has yielded
Yielded == Cardinality({i \in DOMAIN rowState : rowState[i] # "PENDING"})

\* lines 111-116: the next row of df.iterrows(), or the end of the loop
Iterate ==
    /\ pc = "loop"
    /\ IF Yielded < Len(df.rows)
       THEN /\ index' = Yielded
            /\ key' = At(df, index', "key")
            /\ text_to_translate' = At(df, index', "Text")
            /\ exc' = "none"
            /\ rowState' = [rowState EXCEPT ![index' + 1] = "FORMAT"]
            /\ ui' = "translating_row"
            /\ pc' = "format"
       ELSE /\ pc' = "complete"
            /\ UNCHANGED <<index, key, text_to_translate, exc, rowState, ui>>
    /\ UNCHANGED <<api_key, uploaded_file, df, total_rows, prompt, response,
                   calls, warnings, download>>

\* lines 120-123
Format ==
    /\ pc = "format"
    /\ prompt' = FormatPrompt(key, text_to_translate)
    /\ rowState' = [rowState EXCEPT ![index + 1] = "CALL"]
    /\ pc' = "call"
    /\ UNCHANGED <<api_key, uploaded_file, df, total_rows, index, key,
                   text_to_translate, response, exc, calls, warnings, ui,
                   download>>

\* line 126: one request; the service answers with a text or the call raises
Call ==
    /\ pc = "call"
    /\ calls' = Append(calls, [index |-> index, prompt |-> prompt])
    /\ \/ /\ \E r \in Responses : response' = r
          /\ rowState' = [rowState EXCEPT ![index + 1] = "PARSE"]
          /\ pc' = "parse"
          /\ exc' = exc
       \/ /\ exc' = "ServiceError"
          /\ pc' = "except"
          /\ UNCHANGED <<response, rowState>>
    /\ UNCHANGED <<api_key, uploaded_file, df, total_rows, index, key,
                   text_to_translate, prompt, warnings, ui, download>>

\* mutant: a text that is not JSON is defaulted to the sentinel of .get
ParseSilentDefault ==
    /\ pc = "parse"
    /\ LET response_text == CleanResponse(response)
       IN  /\ df' = AtSet(df, index, GERMAN_TRANSLATION,
                          IF ValidJSON(response_text) /\ HasGet(Loads(response_text))
                          THEN Get(Loads(response_text)) ELSE PARSE_ERROR)
           /\ rowState' = [rowState EXCEPT ![index + 1] = "DONE"]
           /\ pc' = "progress"
    /\ UNCHANGED <<api_key, uploaded_file, total_rows, index, key,
                   text_to_translate, prompt, response, exc, calls, warnings,
                   ui, download>>

\* lines 129-133: clean, json.loads, .get, store
Parse ==
    /\ pc = "parse"
    /\ LET response_text == CleanResponse(response)
       IN  IF ~ValidJSON(response_text)
           THEN exc' = "JSONDecodeError" /\ pc' = "except"
                /\ UNCHANGED <<df, rowState>>
           ELSE IF ~HasGet(Loads(response_text))
           THEN exc' = "AttributeError" /\ pc' = "except"
                /\ UNCHANGED <<df, rowState>>
           ELSE /\ df' = AtSet(df, index, GERMAN_TRANSLATION,
                               Get(Loads(response_text)))
                /\ rowState' = [rowState EXCEPT ![index + 1] = "DONE"]
                /\ pc' = "progress"
                /\ exc' = exc
    /\ UNCHANGED <<api_key, uploaded_file, total_rows, index, key,
                   text_to_translate, prompt, response, calls, warnings, ui,
                   download>>

\* mutant: no per-row handler, the exception reaches the outer except
ExceptAborts ==
    /\ pc = "except"
    /\ ui' = "error_processing_file:row"
    /\ pc' = "done"
    /\ UNCHANGED <<api_key, uploaded_file, df, total_rows, index, key,
                   text_to_translate, prompt, response, exc, rowState, calls,
                   warnings, download>>

\* mutant: the handler retries the request
ExceptRetry ==
    /\ pc = "except"
    /\ warnings' = Append(warnings, key)
    /\ exc' = "none"
    /\ pc' = "call"
    /\ UNCHANGED <<api_key, uploaded_file, df, total_rows, index, key,
                   text_to_translate, prompt, response, rowState, calls, ui,
                   download>>

\* lines 135-137: except Exception
Except ==
    /\ pc = "except"
    /\ warnings' = Append(warnings, key)
    /\ df' = AtSet(df, index, GERMAN_TRANSLATION, TRANSLATION_ERROR)
    /\ rowState' = [rowState EXCEPT ![index + 1] = "ERROR"]
    /\ pc' = "progress"
    /\ UNCHANGED <<api_key, uploaded_file, total_rows, index, key,
                   text_to_translate, prompt, response, exc, calls, ui,
                   download>>

\* lines 140-142: progress bar, sleep
Progress ==
    /\ pc = "progress"
    /\ ui' = "progress"
    /\ pc' = "loop"
    /\ UNCHANGED <<api_key, uploaded_file, df, total_rows, index, key,
                   text_to_translate, prompt, response, exc, rowState, calls,
                   warnings, download>>

\* lines 144-163: after the loop: to_excel and the download button; an
\* exception of to_excel is caught by the outer except
Complete ==
    /\ pc = "complete"
    /\ pc' = "done"
    /\ IF ExcelWritable(df)
       THEN /\ download' = df
            /\ ui' = "download_offered"
       ELSE /\ download' = download
            /\ ui' = "error_processing_file:to_excel"
    /\ UNCHANGED <<api_key, uploaded_file, df, total_rows, index, key,
                   text_to_translate, prompt, response, exc, rowState, calls,
                   warnings>>

Next ==
    \/ CheckKey
    \/ Configure
    \/ Upload
    \/ ReadExcel
    \/ Normalize
    \/ Button
    \/ Iterate
    \/ Format
    \/ Call
    \/ Parse
    \/ Except
    \/ Progress
    \/ Complete

Spec == Init /\ [][Next]_vars

----------------------------------------------------------------------------
(* Properties *)

LoopPcs == {"loop", "format", "call", "parse", "except", "progress"}

\* the button was pressed in this run
BatchStarted ==
    \/ pc \in LoopPcs \cup {"complete"}
    \/ pc = "done" /\ ui \in {"download_offered", "error_processing_file:to_excel"}

\* the row loop has run to its end
LoopCompleted == BatchStarted /\ pc \in {"complete", "done"}

\* the run ended on a blocking error before the batch
FatalStop ==
    \/ pc = "stopped"
    \/ pc = "done" /\ ui = "error_processing_file:read_excel"

Final == {"DONE", "ERROR"}

\* the result cell of the row labelled i
Cell(i) == At(df, i, GERMAN_TRANSLATION)

\* the position of the identifier column in the uploaded file
FileKeyPos ==
    CHOOSE j \in DOMAIN uploaded_file.columns :
        uploaded_file.columns[j] \in {"Key", "key"}

\* at pc = "progress" the current row's call returned, so `response` is the
\* text the service gave for this row
Answered == pc = "progress" /\ exc # "ServiceError"

\* C1: once the row loop has completed, the output table has as many rows as
\* the input table and row i carries the identifier of input row i.
C1_RowsPreserved ==
    LoopCompleted =>
        /\ Len(df.rows) = Len(uploaded_file.rows)
        /\ \A i \in DOMAIN df.rows :
              df.rows[i][ColPos(df, "key")] = uploaded_file.rows[i][FileKeyPos]
        /\ ui = "download_offered" => download = df

C1_Witness ==
    /\ LoopCompleted
    /\ Len(df.rows) >= 2
    /\ \A i \in DOMAIN rowState : rowState[i] = "ERROR"
    /\ df.rows[1][ColPos(df, "key")] # df.rows[2][ColPos(df, "key")]

\* C2: a row whose processing raised holds TRANSLATION_ERROR; a step of the
\* loop changes no row that already has its result; an exception is always
\* followed by the next row, and at the end of the loop every row has a
\* result.
C2_FailureIsolation ==
    /\ [](\A i \in DOMAIN rowState :
            rowState[i] = "ERROR" => Cell(i - 1) = TRANSLATION_ERROR)
    /\ [](LoopCompleted => \A i \in DOMAIN rowState : rowState[i] \in Final)
    /\ [][ /\ \A i \in DOMAIN rowState :
                rowState[i] \in Final =>
                    rowState'[i] = rowState[i] /\ df'.rows[i] = df.rows[i]
           /\ pc = "except" => pc' = "progress"
           /\ pc = "progress" => pc' = "loop"
           /\ pc \in LoopPcs => pc' \in LoopPcs \cup {"complete"} ]_vars

C2_Witness ==
    /\ LoopCompleted
    /\ Len(rowState) >= 2
    /\ rowState[1] = "ERROR"
    /\ Cell(0) = TRANSLATION_ERROR
    /\ rowState[2] = "DONE"
    /\ Cell(1) = Hallo

\* C3: when the call raised, or the cleaned response text is not valid JSON,
\* the row's cell is TRANSLATION_ERROR.
C3_InvalidIsTranslationError ==
    pc = "progress" /\ (exc = "ServiceError" \/ ~ValidJSON(CleanResponse(response)))
        => Cell(index) = TRANSLATION_ERROR /\ rowState[index + 1] = "ERROR"

C3_Witness ==
    /\ pc = "progress"
    /\ exc = "JSONDecodeError"
    /\ response = <<Prose, WS, Obj(<<"Q2">>, Hallo)>>
    /\ Cell(index) = TRANSLATION_ERROR

\* C4 (as claimed): every valid JSON answer without the german_translation
\* field, whatever JSON value it is, gives PARSE_ERROR.
C4_AnyJSONWithoutField ==
    Answered /\ ValidJSON(CleanResponse(response))
             /\ ~Loads(CleanResponse(response)).hasGT
        => Cell(index) = PARSE_ERROR

\* C4 (amended): a JSON object without the german_translation field gives
\* PARSE_ERROR; valid JSON that is not an object gives TRANSLATION_ERROR.
C4_ObjectWithoutField ==
    Answered /\ ValidJSON(CleanResponse(response))
             /\ ~Loads(CleanResponse(response)).hasGT
        => IF Loads(CleanResponse(response)).kind = "object"
           THEN Cell(index) = PARSE_ERROR /\ rowState[index + 1] = "DONE"
           ELSE Cell(index) = TRANSLATION_ERROR /\ rowState[index + 1] = "ERROR"

C4_Witness ==
    /\ pc = "progress"
    /\ response = <<FenceTok, JsonTok, WS, ObjNoField(<<"Q1">>), WS, FenceTok>>
    /\ Cell(index) = PARSE_ERROR

\* C5: when the call returned and the cleaned text is a JSON object with the
\* german_translation field, the cell is the value of that field, whatever
\* key the answer echoes; a fenced answer carrying "<p>Hallo</p>" gives
\* exactly "<p>Hallo</p>".
C5_CellIsExtractedValue ==
    /\ Answered /\ ValidJSON(CleanResponse(response))
                /\ Loads(CleanResponse(response)).kind = "object"
                /\ Loads(CleanResponse(response)).hasGT
          => Cell(index) = Loads(CleanResponse(response)).val
    /\ Answered /\ (\E k \in {<<"Q1">>, <<"Q2">>} :
                      response \in { <<Obj(k, Hallo)>>,
                                     <<WS, Obj(k, Hallo), WS>>,
                                     <<FenceTok, JsonTok, WS, Obj(k, Hallo), WS, FenceTok>> })
          => Cell(index) = <<"<p>", "Hallo", "</p>">>

C5_Witness ==
    /\ pc = "progress"
    /\ key = <<"Q1">>
    /\ response = <<FenceTok, JsonTok, WS, Obj(<<"Q2">>, Hallo), WS, FenceTok>>
    /\ Cell(index) = Hallo
    /\ index = 1
    /\ rowState[1] = "ERROR"

\* C6: when the credential is missing, configuration failed, the file could
\* not be read or a required column is absent, the run is over with no call
\* made, no row result written and no download offered.
C6_FatalBeforeRowWork ==
    ( \/ api_key = EMPTY /\ pc # "start"
      \/ ui = "error_configuring"
      \/ uploaded_file.kind = "corrupt" /\ pc \notin {"start", "configure", "upload", "read"}
      \/ ui = "error_columns"
      \/ uploaded_file.kind = "xlsx" /\ pc \notin {"start", "configure", "upload", "read", "rename"}
            /\ ~({"Key", "key"} \cap Range(uploaded_file.columns) # {}
                 /\ {"Text in english to be translated", "Text"}
                        \cap Range(uploaded_file.columns) # {}) )
        => /\ FatalStop
           /\ calls = <<>>
           /\ rowState = <<>>
           /\ GERMAN_TRANSLATION \in Range(df.columns)
                 => df.rows = uploaded_file.rows
           /\ download = NoDF

C6_Witness ==
    /\ pc = "stopped"
    /\ ui = "error_columns"
    /\ uploaded_file.columns = <<"Key", "Notes">>
    /\ Len(uploaded_file.rows) >= 2

\* the canonical form of a header as the claim names it
ClaimCanonical(c) ==
    IF c = "Key" THEN "key"
    ELSE IF c = "Text in english to be translated" THEN "text" ELSE c

\* the canonical form of a header with the text column named Text
Canonical(c) ==
    IF c = "Key" THEN "key"
    ELSE IF c = "Text in english to be translated" THEN "Text" ELSE c

\* the required-column check has been made on the uploaded file
PastNormalize ==
    /\ uploaded_file.kind = "xlsx"
    /\ \/ pc \in LoopPcs \cup {"button", "complete", "done"}
       \/ pc = "stopped" /\ ui = "error_columns"

\* C7 (as claimed): a file is accepted exactly when the same file with the
\* canonical headers key and text is accepted (has both of them).
C7_CanonicalKeyText ==
    PastNormalize =>
        ((pc # "stopped") <=>
            {"key", "text"} \subseteq {ClaimCanonical(c) : c \in Range(uploaded_file.columns)})

\* C7 (amended): the canonical headers are key and Text: a file is accepted
\* exactly when both are present after the rename, the loaded table is the
\* one the same file with canonical headers gives, and each request carries
\* the row's key and text.
C7_CanonicalKeyTextCapital ==
    PastNormalize =>
        /\ (pc # "stopped") <=>
              {"key", "Text"} \subseteq {Canonical(c) : c \in Range(uploaded_file.columns)}
        /\ pc = "button" =>
              df = [columns |-> [j \in DOMAIN uploaded_file.columns |->
                                    Canonical(uploaded_file.columns[j])],
                    rows |-> uploaded_file.rows]
        /\ \A k \in DOMAIN calls :
              \E jk, jt \in DOMAIN uploaded_file.columns :
                  /\ Canonical(uploaded_file.columns[jk]) = "key"
                  /\ Canonical(uploaded_file.columns[jt]) = "Text"
                  /\ calls[k].prompt =
                        <<uploaded_file.rows[k][jk],
                          IF uploaded_file.rows[k][jt] = NaN THEN <<"nan">>
                          ELSE uploaded_file.rows[k][jt]>>

C7_Witness ==
    /\ LoopCompleted
    /\ uploaded_file.columns = <<"Key", "Text in english to be translated">>
    /\ Len(calls) >= 2
    /\ df.columns = <<"key", "Text", "German Translation">>

\* C8: once the batch has started and the run is over, the download is
\* offered; and it is offered only when every row has its result.
C8_DownloadAfterLoop ==
    /\ BatchStarted /\ pc = "done" => ui = "download_offered" /\ download = df
    /\ download # NoDF => \A i \in DOMAIN rowState : rowState[i] \in Final

\* C9: the calls are those of rows 0, 1, 2, ... in this order, one per row
\* and no more; a row is called only when every row before it has its final
\* state; at most one row is in progress; when the loop is over there are
\* as many calls as rows; a row's state only moves along
\* PENDING, FORMAT, CALL, PARSE, DONE or from CALL or PARSE to ERROR.
C9_OneCallPerRowInOrder ==
    /\ [](/\ \A k \in DOMAIN calls : calls[k].index = k - 1
          /\ \A k \in DOMAIN calls : \A j \in 1..(k - 1) :
                 rowState[j] \in Final
          /\ Cardinality({i \in DOMAIN rowState :
                            rowState[i] \in {"FORMAT", "CALL", "PARSE"}}) <= 1
          /\ \A i \in DOMAIN rowState :
                 rowState[i] \in {"PARSE", "DONE", "ERROR"} => i <= Len(calls)
          /\ \A i, j \in DOMAIN rowState :
                 i < j /\ rowState[j] # "PENDING" => rowState[i] \in Final
          /\ LoopCompleted => Len(calls) = Len(uploaded_file.rows))
    /\ [][\A i \in DOMAIN rowState :
             rowState'[i] # rowState[i] =>
                <<rowState[i], rowState'[i]>> \in
                    { <<"PENDING", "FORMAT">>, <<"FORMAT", "CALL">>,
                      <<"CALL", "PARSE">>, <<"PARSE", "DONE">>,
                      <<"CALL", "ERROR">>, <<"PARSE", "ERROR">> }]_vars

C9_Witness ==
    /\ LoopCompleted
    /\ Len(calls) >= 2
    /\ rowState[1] = "ERROR"
    /\ rowState[2] = "DONE"
    /\ exc = "none"

\* C10: when the loop is over the table has every input column with its
\* original values, followed by one added column.
C10_OriginalColumnsKept ==
    LoopCompleted =>
        /\ Len(df.columns) = Len(uploaded_file.columns) + 1
        /\ \A i \in DOMAIN uploaded_file.rows :
              \A j \in DOMAIN uploaded_file.columns :
                  df.rows[i][j] = uploaded_file.rows[i][j]

============================================================================
